---- MODULE Spec2Model ----
(***************************************************************************)
(* Model of app.py: the resume pipeline of one Streamlit session.          *)
(*                                                                         *)
(*   ResumeParser.extract_text / extract_text_from_file   (text extractor) *)
(*   ResumeParser.extract_information                     (LLM + JSON)     *)
(*   process_uploaded_files, main                         (session store)  *)
(*   display_formatted_resume                             (presentation)   *)
(*                                                                         *)
(* Strings whose characters the code inspects (file names, JSON strings)   *)
(* are sequences of one-character strings. JSON values are tagged records. *)
(***************************************************************************)
EXTENDS Naturals, Sequences, FiniteSets, TLC

\* ------------------------------------------------------------------ bounds
\* files the uploader hands over in one session, all script runs together
MaxUploads == 3

\* ------------------------------------------------------------ str helpers
Upper == <<"A","B","C","D","E","F","G","H","I","J","K","L","M",
           "N","O","P","Q","R","S","T","U","V","W","X","Y","Z">>
Lower == <<"a","b","c","d","e","f","g","h","i","j","k","l","m",
           "n","o","p","q","r","s","t","u","v","w","x","y","z">>

\* str.lower(), one character
LowerChar(c) ==
    IF \E i \in 1..Len(Upper) : Upper[i] = c
    THEN Lower[CHOOSE i \in 1..Len(Upper) : Upper[i] = c]
    ELSE c

\* str.lower()
StrLower(s) == [i \in 1..Len(s) |-> LowerChar(s[i])]

\* str.endswith(suffix)
EndsWith(s, suf) ==
    /\ Len(suf) <= Len(s)
    /\ SubSeq(s, Len(s) - Len(suf) + 1, Len(s)) = suf

\* str.endswith(tuple of suffixes)
EndsWithAny(s, sufs) == \E suf \in sufs : EndsWith(s, suf)

ExtPdf  == <<".","p","d","f">>
ExtDocx == <<".","d","o","c","x">>
ExtDoc  == <<".","d","o","c">>

\* ------------------------------------------------------------ file inputs
NameAPdf   == <<"a",".","p","d","f">>
NameBDoc   == <<"b",".","d","o","c">>
NameCVDocx == <<"C","V",".","D","O","C","X">>
NameNTxt   == <<"n",".","t","x","t">>

Names == {NameAPdf, NameBDoc, NameCVDocx, NameNTxt}

\* what the uploaded bytes are: a PDF with text, a PDF without text, a Word
\* document with text, or bytes no document reader accepts
Bodies == {"pdf_text", "pdf_blank", "word_text", "junk"}

\* ------------------------------------------------------------ JSON values
VNull      == [t |-> "null"]
VStr(s)    == [t |-> "str", s |-> s]
VNum(n)    == [t |-> "num", n |-> n]
VList(xs)  == [t |-> "list", items |-> xs]
VObj(m)    == [t |-> "obj", m |-> m]

\* the empty dict {}
EmptyRecord == VObj(<<>>)

\* Python truthiness of a value (if info: / if info.get(...):)
Truthy(v) ==
    CASE v.t = "null" -> FALSE
      [] v.t = "str"  -> Len(v.s) > 0
      [] v.t = "num"  -> v.n # 0
      [] v.t = "list" -> Len(v.items) > 0
      [] v.t = "obj"  -> DOMAIN v.m # {}

\* keys the prompt asks for (top level)
KName         == <<"n","a","m","e">>
KEducation    == <<"e","d","u","c","a","t","i","o","n">>
KNationality  == <<"n","a","t","i","o","n","a","l","i","t","y">>
KDob          == <<"d","o","b">>
KLanguages    == <<"l","a","n","g","u","a","g","e","s">>
KLocation     == <<"l","o","c","a","t","i","o","n">>
KExperience   == <<"e","x","p","e","r","i","e","n","c","e">>
KCertificates == <<"c","e","r","t","i","f","i","c","a","t","e","s">>
KVisas        == <<"v","i","s","a","s">>
KSummary      == <<"s","u","m","m","a","r","y">>

\* keys of one education entry / one experience entry
KInstitution  == <<"i","n","s","t","i","t","u","t","i","o","n">>
KDegree       == <<"d","e","g","r","e","e">>
KDate         == <<"d","a","t","e">>
KCompanyName  == <<"c","o","m","p","a","n","y","_","n","a","m","e">>
KPosition     == <<"p","o","s","i","t","i","o","n">>
KDuration     == <<"d","u","r","a","t","i","o","n">>
KJobDescription == <<"j","o","b","_","d","e","s","c","r","i","p","t","i","o","n">>

\* the field list of the prompt
PromptFields == {KName, KEducation, KNationality, KDob, KLanguages, KLocation,
                 KExperience, KCertificates, KVisas, KSummary}

\* --------------------------------------------------------- text extractor
\* filetype= argument of fitz.open
FileTypeTag(name) ==
    IF EndsWithAny(name, {ExtDocx, ExtDoc}) THEN "docx" ELSE "pdf"

\* fitz.open(stream, filetype) followed by page.get_text() over all pages.
\* lenient: whether this PyMuPDF build reads a stream whose content is not of
\* the announced filetype (it may detect the content, or reject the stream).
FitzRead(body, tag, lenient) ==
    LET matches == \/ body \in {"pdf_text", "pdf_blank"} /\ tag = "pdf"
                   \/ body = "word_text" /\ tag = "docx"
    IN  IF body = "junk" \/ (~matches /\ ~lenient)
        THEN [ok |-> FALSE, text |-> ""]
        ELSE [ok |-> TRUE, text |-> IF body = "pdf_blank" THEN "" ELSE "T"]

\* mutant: the except clause is missing, the reader's exception propagates
extract_text_from_file_NoCatch(name, body, lenient) ==
    LET r == FitzRead(body, FileTypeTag(name), lenient)
    IN  [text |-> r.text, read |-> TRUE, tag |-> FileTypeTag(name),
         errs |-> <<>>, raised |-> ~r.ok]

extract_text_from_file(name, body, lenient) ==
    LET r == FitzRead(body, FileTypeTag(name), lenient)
    IN  [text |-> r.text, read |-> TRUE, tag |-> FileTypeTag(name),
         errs |-> IF r.ok THEN <<>> ELSE <<"text_error">>, raised |-> FALSE]

\* the extension test of extract_text
SupportedName(name) == EndsWithAny(StrLower(name), {ExtPdf, ExtDocx, ExtDoc})

\* mutant: the extension test is missing, every file is handed to the reader
extract_text_NoCheck(name, body, lenient) ==
    extract_text_from_file(name, body, lenient)

extract_text(name, body, lenient) ==
    IF SupportedName(name)
    THEN extract_text_from_file(name, body, lenient)
    ELSE [text |-> "", read |-> FALSE, tag |-> "none",
          errs |-> <<"unsupported">>, raised |-> FALSE]

\* --------------------------------------------------- information extractor
\* The reply text of the service is a sequence of tokens: punctuation, and
\* JSON values (a nested array or object is one token, already structured).
Punct(c) == [t |-> "punct", c |-> c]
IsPunct(tok, c) == tok.t = "punct" /\ tok.c = c

RECURSIVE ParseMembers(_, _)
\* the members of a JSON object: key ":" value ("," key ":" value)*;
\* a repeated key keeps the last value, as Python's dict does
ParseMembers(toks, acc) ==
    IF /\ Len(toks) >= 3
       /\ toks[1].t = "str"
       /\ IsPunct(toks[2], ":")
       /\ toks[3].t # "punct"
    THEN LET m    == (toks[1].s :> toks[3]) @@ acc
             rest == SubSeq(toks, 4, Len(toks))
         IN  IF rest = <<>> THEN [ok |-> TRUE, m |-> m]
             ELSE IF IsPunct(rest[1], ",") THEN ParseMembers(Tail(rest), m)
             ELSE [ok |-> FALSE, m |-> <<>>]
    ELSE [ok |-> FALSE, m |-> <<>>]

\* json.loads(content)
json_loads(toks) ==
    IF Len(toks) = 1 /\ toks[1].t # "punct"
    THEN [ok |-> TRUE, value |-> toks[1]]
    ELSE IF /\ Len(toks) >= 2
            /\ IsPunct(toks[1], "{")
            /\ IsPunct(toks[Len(toks)], "}")
    THEN IF Len(toks) = 2 THEN [ok |-> TRUE, value |-> EmptyRecord]
         ELSE LET p == ParseMembers(SubSeq(toks, 2, Len(toks) - 1), <<>>)
              IN  [ok |-> p.ok, value |-> VObj(p.m)]
    ELSE [ok |-> FALSE, value |-> VNull]

\* mutant: only the service call is guarded, a reply that is not JSON raises
extract_information_NoCatch(text, outcome) ==
    IF outcome.kind = "error"
    THEN [info |-> EmptyRecord, errs |-> <<"info_error">>, raised |-> FALSE]
    ELSE IF outcome.kind = "reply_none"
    THEN [info |-> EmptyRecord, errs |-> <<>>, raised |-> TRUE]
    ELSE LET j == json_loads(outcome.content)
         IN  IF j.ok THEN [info |-> j.value, errs |-> <<>>, raised |-> FALSE]
             ELSE [info |-> EmptyRecord, errs |-> <<>>, raised |-> TRUE]

\* outcome: what client.chat.completions.create does for this prompt: it
\* raises ("error"), replies without content ("reply_none") or replies with
\* the text outcome.content
extract_information(text, outcome) ==
    IF outcome.kind = "error" \/ outcome.kind = "reply_none"
    THEN [info |-> EmptyRecord, errs |-> <<"info_error">>, raised |-> FALSE]
    ELSE LET j == json_loads(outcome.content)
         IN  IF j.ok THEN [info |-> j.value, errs |-> <<>>, raised |-> FALSE]
             ELSE [info |-> EmptyRecord, errs |-> <<"info_error">>,
                   raised |-> FALSE]

\* ------------------------------------------------------------ presentation
\* What display_formatted_resume puts on the page: a sequence of widget
\* calls, each with a label and the value interpolated into it, and whether
\* the function raised (the page then ends at the last widget written).
Item(w, label, val) == [w |-> w, label |-> label, val |-> val]

NA      == VStr(<<"N","/","A">>)
Role    == VStr(<<"R","o","l","e">>)
Company == VStr(<<"C","o","m","p","a","n","y">>)
Degree  == VStr(<<"D","e","g","r","e","e">>)
NoText  == VStr(<<>>)

Done(out)   == [out |-> out, raised |-> FALSE]
Raised(out) == [out |-> out, raised |-> TRUE]

\* statements in sequence: b runs only if a did not raise
Then(a, b) == IF a.raised THEN a ELSE [out |-> a.out \o b.out, raised |-> b.raised]

\* dict.get(key, default)
Get(m, k, d) == IF k \in DOMAIN m THEN m[k] ELSE d

Whitespace == {" ", "\n", "\t"}

RECURSIVE LStrip(_)
LStrip(s) == IF s # <<>> /\ Head(s) \in Whitespace THEN LStrip(Tail(s)) ELSE s

RECURSIVE RStrip(_)
RStrip(s) ==
    IF s # <<>> /\ s[Len(s)] \in Whitespace
    THEN RStrip(SubSeq(s, 1, Len(s) - 1)) ELSE s

\* str.strip()
Strip(s) == RStrip(LStrip(s))

RECURSIVE SplitLines(_, _)
\* str.split('\n'): cur is the line being read
SplitLines(s, cur) ==
    IF s = <<>> THEN <<cur>>
    ELSE IF Head(s) = "\n" THEN <<cur>> \o SplitLines(Tail(s), <<>>)
    ELSE SplitLines(Tail(s), Append(cur, Head(s)))

RECURSIVE SetToSeq(_)
SetToSeq(S) ==
    IF S = {} THEN <<>>
    ELSE LET x == CHOOSE y \in S : TRUE IN <<x>> \o SetToSeq(S \ {x})

\* for x in v: the elements a Python loop (or str.join) sees; a dict yields
\* its keys, a str its characters, a number or None is not iterable
Iterable(v) == v.t \in {"list", "str", "obj"}
Elements(v) ==
    CASE v.t = "list" -> v.items
      [] v.t = "str"  -> [i \in 1..Len(v.s) |-> VStr(<<v.s[i]>>)]
      [] v.t = "obj"  -> LET ks == SetToSeq(DOMAIN v.m)
                         IN  [i \in 1..Len(ks) |-> VStr(ks[i])]

RECURSIVE Join(_)
\* ", ".join(parts) for parts that are all str
Join(parts) ==
    IF parts = <<>> THEN <<>>
    ELSE IF Len(parts) = 1 THEN parts[1].s
    ELSE parts[1].s \o <<",", " ">> \o Join(Tail(parts))

RECURSIVE DescLines(_)
\* lines 110-112: one bullet per line that is not blank
DescLines(lines) ==
    IF lines = <<>> THEN <<>>
    ELSE (IF Strip(Head(lines)) # <<>>
          THEN <<Item("write", "-", VStr(Strip(Head(lines))))>> ELSE <<>>)
         \o DescLines(Tail(lines))

\* lines 106-112 for one entry of info['experience']
ExperienceEntry(exp) ==
    IF exp.t # "obj" THEN Raised(<<>>)
    ELSE LET head == <<Item("expander", "at",
                            VList(<<Get(exp.m, KPosition, Role),
                                    Get(exp.m, KCompanyName, Company)>>)),
                       Item("write", "Duration", Get(exp.m, KDuration, NA)),
                       Item("write", "Job Description", VNull)>>
             jd   == Get(exp.m, KJobDescription, NoText)
         IN  IF jd.t # "str" THEN Raised(head)
             ELSE Done(head \o DescLines(SplitLines(jd.s, <<>>)))

\* lines 118-121 for one entry of info['education']
EducationEntry(edu) ==
    IF edu.t # "obj" THEN Raised(<<>>)
    ELSE Done(<<Item("write", "Degree", Get(edu.m, KDegree, Degree)),
                Item("write", "Institution", Get(edu.m, KInstitution, NA)),
                Item("write", "Location", Get(edu.m, KLocation, NA)),
                Item("write", "Completion Date", Get(edu.m, KDate, NA))>>)

\* lines 132 and 138: one bullet per element
BulletEntry(x) == Done(<<Item("write", "-", x)>>)

RECURSIVE ForEach(_, _)
\* a for loop over xs whose body is Body(kind, x)
Body(kind, x) ==
    CASE kind = "experience" -> ExperienceEntry(x)
      [] kind = "education"  -> EducationEntry(x)
      [] kind = "bullet"     -> BulletEntry(x)
ForEach(kind, xs) ==
    IF xs = <<>> THEN Done(<<>>)
    ELSE Then(Body(kind, Head(xs)), ForEach(kind, Tail(xs)))

\* if info.get(key): st.subheader(title); for x in info[key]: body
ListSection(m, key, title, kind) ==
    LET v == Get(m, key, VNull)
    IN  IF ~Truthy(v) THEN Done(<<>>)
        ELSE Then(Done(<<Item("subheader", title, VNull)>>),
                  IF Iterable(v) THEN ForEach(kind, Elements(v))
                  ELSE Raised(<<>>))

\* lines 98-100
SummarySection(m) ==
    LET v == Get(m, KSummary, VNull)
    IN  IF ~Truthy(v) THEN Done(<<>>)
        ELSE Done(<<Item("subheader", "Professional Summary", VNull),
                    Item("write", "summary", v)>>)

\* lines 124-126
LanguagesSection(m) ==
    LET v == Get(m, KLanguages, VNull)
    IN  IF ~Truthy(v) THEN Done(<<>>)
        ELSE Then(Done(<<Item("subheader", "Languages", VNull)>>),
                  IF Iterable(v) /\ \A i \in 1..Len(Elements(v)) :
                                        Elements(v)[i].t = "str"
                  THEN Done(<<Item("write", "languages",
                                   VStr(Join(Elements(v))))>>)
                  ELSE Raised(<<>>))

\* lines 85-95
BasicInfo(m, filename) ==
    Done(<<Item("title", "Resume Analysis", VStr(filename)),
           Item("subheader", "Basic Information", VNull),
           Item("write", "Name", Get(m, KName, NA)),
           Item("write", "Location", Get(m, KLocation, NA)),
           Item("write", "Nationality", Get(m, KNationality, NA)),
           Item("write", "Date of Birth", Get(m, KDob, NA))>>)

display_formatted_resume(info, filename) ==
    IF info.t # "obj"
    THEN Raised(<<Item("title", "Resume Analysis", VStr(filename)),
                  Item("subheader", "Basic Information", VNull)>>)
    ELSE Then(BasicInfo(info.m, filename),
         Then(SummarySection(info.m),
         Then(ListSection(info.m, KExperience, "Work Experience", "experience"),
         Then(ListSection(info.m, KEducation, "Education", "education"),
         Then(LanguagesSection(info.m),
         Then(ListSection(info.m, KCertificates, "Certificates", "bullet"),
              ListSection(info.m, KVisas, "Work Visas", "bullet")))))))

\* ------------------------------------------------------------ the session
VARIABLES
    session_state,  \* st.session_state: key -> value
    pc,             \* where the script run is: "idle", "process", "content", "crashed"
    uploads,        \* files the uploader has handed over so far
    api_key,        \* the text_input value of this run
    parser,         \* whether this run built a ResumeParser
    batch,          \* uploaded_files of this run (file names, upload order)
    queue,          \* new_files not yet processed
    done,           \* names the loop has processed in this run, in order
    last,           \* what the loop did for the file it processed last
    start_store,    \* extracted_data when process_uploaded_files was called
    failed,         \* names whose extract_information failed in an earlier run
    failing,        \* names whose extract_information failed in this run
    calls,          \* name -> extract_information calls made for it so far
    page            \* what this run rendered in the main area

vars == <<session_state, pc, uploads, api_key, parser, batch, queue, done, last,
          start_store, failed, failing, calls, page>>

ApiKeys == {<<>>, <<"s","k">>}

\* replies of the service used in the session
ObjA == <<Punct("{"), VStr(KName), Punct(":"), VStr(<<"J","o">>), Punct("}")>>
ObjB == <<Punct("{"), VStr(KExperience), Punct(":"),
          VList(<<VObj(KJobDescription :> VNull)>>), Punct(","),
          VStr(KEducation), Punct(":"),
          VList(<<VObj(KDegree :> VStr(<<"B","S","c">>))>>), Punct("}")>>
ObjEmpty == <<Punct("{"), Punct("}")>>
Truncated == <<Punct("{"), VStr(KName), Punct(":")>>

Outcomes == {[kind |-> "error"]}
            \cup {[kind |-> "reply", content |-> c] :
                     c \in {ObjA, ObjB, ObjEmpty, Truncated}}

\* st.session_state['extracted_data'], {} while the key is not set
Store(ss) == IF "extracted_data" \in DOMAIN ss THEN ss["extracted_data"] ELSE <<>>

\* 'processed_files' not in st.session_state => set()
InitProcessedFiles(ss) ==
    IF "processed_files" \in DOMAIN ss THEN ss ELSE ("processed_files" :> {}) @@ ss

\* 'extracted_data' not in st.session_state => {}
InitExtractedData(ss) ==
    IF "extracted_data" \in DOMAIN ss THEN ss ELSE ("extracted_data" :> <<>>) @@ ss

\* st.session_state['extracted_data'][name] = info
Put(ss, name, info) ==
    [ss EXCEPT !["extracted_data"] = (name :> info) @@ ss["extracted_data"]]

\* mutant: no file is filtered out
NewFiles_NoFilter(files, store) == files

\* new_files = [f for f in files if f.name not in extracted_data]
NewFiles(files, store) ==
    LET Fresh(n) == n \notin DOMAIN store IN SelectSeq(files, Fresh)

\* mutant: the key is not tested
KeyMissing_Never(key) == FALSE

\* not api_key
KeyMissing(key) == Len(key) = 0

NoEntry == [name |-> <<>>, text |-> "", read |-> FALSE, tag |-> "none",
            errs |-> <<>>, called |-> FALSE, reply |-> [kind |-> "none"],
            info |-> VNull, before |-> <<>>, after |-> <<>>]

\* what the uploader can hand over when n more files fit the bound; the
\* names include one the uploader's type list does not name, which
\* extract_text has a branch for
Batches(n) == UNION {[1..k -> Names] : k \in 1..n}

Init ==
    /\ session_state = <<>>
    /\ pc = "idle"
    /\ uploads = 0
    /\ api_key = <<>>
    /\ parser = "none"
    /\ batch = <<>>
    /\ queue = <<>>
    /\ done = <<>>
    /\ last = NoEntry
    /\ start_store = <<>>
    /\ failed = {}
    /\ failing = {}
    /\ calls = [n \in Names |-> 0]
    /\ page = [kind |-> "none"]

\* a script run starts: lines 155-164
StartRun(key) ==
    /\ pc \in {"idle", "crashed"}
    /\ api_key' = key
    /\ failed' = failed \cup failing
    /\ failing' = {}
    /\ done' = <<>>
    /\ last' = NoEntry
    /\ calls' = calls

\* lines 165-167: no key, warning, return
MainNoKey(key) ==
    /\ StartRun(key)
    /\ KeyMissing(key)
    /\ uploads' = uploads
    /\ session_state' = InitProcessedFiles(session_state)
    /\ page' = [kind |-> "warning"]
    /\ pc' = "idle"
    /\ parser' = "none"
    /\ batch' = <<>>
    /\ queue' = <<>>
    /\ start_store' = Store(session_state)

\* lines 169-171 with nothing uploaded: on to the main area
MainNoUpload(key) ==
    /\ StartRun(key)
    /\ ~KeyMissing(key)
    /\ uploads' = uploads
    /\ session_state' = InitProcessedFiles(session_state)
    /\ page' = [kind |-> "none"]
    /\ pc' = "content"
    /\ parser' = "none"
    /\ batch' = <<>>
    /\ queue' = <<>>
    /\ start_store' = Store(session_state)

\* lines 171-173 and 141-144: the parser is built and
\* process_uploaded_files computes new_files
MainUpload(key, files) ==
    /\ StartRun(key)
    /\ ~KeyMissing(key)
    /\ files # <<>>
    /\ uploads' = uploads + Len(files)
    /\ session_state' = InitExtractedData(InitProcessedFiles(session_state))
    /\ page' = [kind |-> "none"]
    /\ parser' = "built"
    /\ batch' = files
    /\ start_store' = Store(session_state)
    /\ queue' = NewFiles(files, Store(session_state))
    /\ pc' = IF queue' = <<>> THEN "content" ELSE "process"

\* the iteration's result once extract_text has returned t and, if it was
\* called, extract_information has returned x
FileStep(name, outcome, t, call, x) ==
    LET put == call /\ ~x.raised /\ Truthy(x.info)
        ss  == IF put THEN Put(session_state, name, x.info) ELSE session_state
    IN  /\ session_state' = ss
        /\ last' = [name |-> name, text |-> t.text, read |-> t.read,
                    tag |-> t.tag, errs |-> t.errs \o x.errs,
                    called |-> call,
                    reply |-> IF call THEN outcome ELSE [kind |-> "none"],
                    info |-> x.info,
                    before |-> Store(session_state), after |-> Store(ss)]
        /\ done' = Append(done, name)
        /\ failing' = IF call /\ x.errs # <<>> THEN failing \cup {name}
                      ELSE failing
        /\ calls' = IF call THEN [calls EXCEPT ![name] = @ + 1] ELSE calls
        /\ queue' = Tail(queue)
        /\ pc' = IF t.raised \/ x.raised THEN "crashed"
                 ELSE IF Tail(queue) = <<>> THEN "content" ELSE "process"

NotCalled == [info |-> VNull, errs |-> <<>>, raised |-> FALSE]

\* lines 146-152: one iteration of the loop over new_files
ProcessFile(body, lenient, outcome) ==
    /\ pc = "process"
    /\ queue # <<>>
    /\ \E t \in {extract_text(Head(queue), body, lenient)} :
          IF ~t.raised /\ t.text # ""
          THEN \E x \in {extract_information(t.text, outcome)} :
                  FileStep(Head(queue), outcome, t, TRUE, x)
          ELSE FileStep(Head(queue), outcome, t, FALSE, NotCalled)
    /\ UNCHANGED <<uploads, api_key, parser, batch, start_store, failed, page>>

\* lines 176-191: the main area shows the resume picked in the selectbox
MainContent(selected) ==
    /\ pc = "content"
    /\ selected \in DOMAIN Store(session_state)
    /\ page' = [kind |-> "resume", name |-> selected,
                view |-> display_formatted_resume(Store(session_state)[selected],
                                                  selected)]
    /\ pc' = "idle"
    /\ UNCHANGED <<session_state, uploads, api_key, parser, batch, queue, done,
                   last, start_store, failed, failing, calls>>

\* lines 190-191: nothing stored yet
MainEmpty ==
    /\ pc = "content"
    /\ DOMAIN Store(session_state) = {}
    /\ page' = [kind |-> "prompt"]
    /\ pc' = "idle"
    /\ UNCHANGED <<session_state, uploads, api_key, parser, batch, queue, done,
                   last, start_store, failed, failing, calls>>

Next ==
    \/ \E key \in ApiKeys : MainNoKey(key)
    \/ \E key \in ApiKeys : MainNoUpload(key)
    \/ \E key \in ApiKeys, files \in Batches(MaxUploads - uploads) :
           MainUpload(key, files)
    \/ \E body \in Bodies, lenient \in BOOLEAN, outcome \in Outcomes :
           ProcessFile(body, lenient, outcome)
    \/ \E selected \in Names : MainContent(selected)
    \/ MainEmpty

Spec == Init /\ [][Next]_vars

\* ------------------------------------- extract_information on its own
\* reply texts of at most this many tokens are all tried
MaxReplyLen == 5

KOther == <<"x">>

ReplyTokens == {Punct("{"), Punct("}"), Punct(":"), Punct(","), VStr(KOther)}

\* longer replies: two members, a repeated key, a trailing comma, a missing
\* comma, a number as value
LongReplies ==
    {<<Punct("{"), VStr(KName), Punct(":"), VStr(KOther), Punct(","),
       VStr(KOther), Punct(":"), VNum(1), Punct("}")>>,
     <<Punct("{"), VStr(KName), Punct(":"), VStr(KOther), Punct(","),
       VStr(KName), Punct(":"), VNum(1), Punct("}")>>,
     <<Punct("{"), VStr(KName), Punct(":"), VStr(KOther), Punct(","),
       Punct("}")>>,
     <<Punct("{"), VStr(KName), Punct(":"), VStr(KOther),
       VStr(KOther), Punct(":"), VNum(1), Punct("}")>>,
     <<Punct("{"), VStr(KName), Punct(":"), VStr(KOther), Punct("}")>>,
     <<Punct("{"), VStr(KSummary), Punct(":"), VNull, Punct("}")>>,
     <<VNum(0)>>, <<VNum(1)>>, <<VNull>>}

ReplyTexts == UNION {[1..n -> ReplyTokens] : n \in 0..MaxReplyLen} \cup LongReplies

ReplyOutcomes == {[kind |-> "error"], [kind |-> "reply_none"]}
                 \cup {[kind |-> "reply", content |-> c] : c \in ReplyTexts}

\* the loop is about to process a.pdf, the first file of the session
InitInfo ==
    /\ session_state = ("extracted_data" :> <<>>) @@ ("processed_files" :> {})
    /\ pc = "process"
    /\ uploads = 1
    /\ api_key = <<"s","k">>
    /\ parser = "built"
    /\ batch = <<NameAPdf>>
    /\ queue = <<NameAPdf>>
    /\ done = <<>>
    /\ last = NoEntry
    /\ start_store = <<>>
    /\ failed = {}
    /\ failing = {}
    /\ calls = [n \in Names |-> 0]
    /\ page = [kind |-> "none"]

NextInfo ==
    \E outcome \in ReplyOutcomes : ProcessFile("pdf_text", FALSE, outcome)

SpecInfo == InitInfo /\ [][NextInfo]_vars

\* ------------------------------------------------------------- properties
Range(f) == {f[i] : i \in DOMAIN f}

\* the run reached the loop of process_uploaded_files and processed a file
Processed == last.name # <<>>

\* C1: a file whose name is already a key of extracted_data when
\* process_uploaded_files is called is not processed (neither extract_text
\* nor extract_information runs for it) and its entry stays as it was; a
\* batch of such names only leaves the whole store as it was.
C1_ReuploadIsNoOp ==
    /\ \A i \in 1..Len(batch) :
          batch[i] \in DOMAIN start_store =>
             /\ batch[i] \notin Range(done)
             /\ last.name # batch[i]
             /\ batch[i] \in DOMAIN Store(session_state)
             /\ Store(session_state)[batch[i]] = start_store[batch[i]]
    /\ (batch # <<>> /\ \A i \in 1..Len(batch) : batch[i] \in DOMAIN start_store)
          => /\ Store(session_state) = start_store
             /\ done = <<>>
             /\ last = NoEntry

\* a later run re-uploads a stored name together with a new file, and the
\* loop has processed the new one
C1_Witness ==
    /\ pc = "content"
    /\ Len(done) = 1
    /\ \E i \in 1..Len(batch) : batch[i] \in DOMAIN start_store

\* C2 (as stated): a name whose extract_information failed in an earlier
\* run of the session is not processed again in a later run.
C2_NoRetryAcrossRuns == \A i \in 1..Len(done) : done[i] \notin failed

\* C3: for a name without a supported extension extract_text returns empty
\* text, does not read the file and reports the unsupported format once;
\* extract_information is not called and extracted_data keeps its entries.
C3_UnsupportedFormat ==
    (Processed /\ ~SupportedName(last.name)) =>
        /\ last.text = ""
        /\ ~last.read
        /\ last.errs = <<"unsupported">>
        /\ ~last.called
        /\ last.after = last.before
        /\ calls[last.name] = 0

C3_Witness ==
    /\ last.name = NameNTxt
    /\ last.errs = <<"unsupported">>
    /\ DOMAIN last.before # {}

\* C4: no exception leaves the loop; a file that fails (unsupported format,
\* unreadable document, failed service call, reply that is not JSON) adds
\* nothing to extracted_data, and extract_information is not called after an
\* empty text; the new files of the batch are processed in upload order and
\* each one whose extraction yields a record is stored under its name.
C4_FailureIsPerFile ==
    /\ pc # "crashed"
    /\ Processed =>
          /\ last.text = "" => ~last.called /\ last.after = last.before
          /\ last.errs # <<>> => last.after = last.before
          /\ (last.called /\ last.errs = <<>> /\ Truthy(last.info)) =>
                last.after = (last.name :> last.info) @@ last.before
    /\ LET Fresh(n) == n \notin DOMAIN start_store
       IN  done \o queue = SelectSeq(batch, Fresh)

\* the first file of a batch failed at the service and a later one is stored
C4_Witness ==
    /\ Len(done) >= 2
    /\ done[1] \in failing
    /\ last.name \notin failing
    /\ last.after # last.before

\* the keys of the reply and the value of a key, read off the reply text
\* without parsing: members sit at positions 2..5, 6..9, ...
ObjectShape(toks) ==
    /\ Len(toks) >= 2
    /\ IsPunct(toks[1], "{")
    /\ IsPunct(toks[Len(toks)], "}")
    /\ Len(toks) = 2 \/ (Len(toks) - 1) % 4 = 0
    /\ \A j \in 1..((Len(toks) - 1) \div 4) :
          /\ toks[4 * j - 2].t = "str"
          /\ IsPunct(toks[4 * j - 1], ":")
          /\ toks[4 * j].t # "punct"
          /\ IsPunct(toks[4 * j + 1], IF 4 * j + 1 = Len(toks) THEN "}" ELSE ",")
ReplyKeys(toks) == {toks[4 * j - 2].s : j \in 1..((Len(toks) - 1) \div 4)}
ReplyValue(toks, k) ==
    LET js == {j \in 1..((Len(toks) - 1) \div 4) : toks[4 * j - 2].s = k}
        jm == CHOOSE j \in js : \A i \in js : i <= j
    IN  toks[4 * jm]

\* C5 (as stated): extract_information returns an empty record or a record
\* whose keys are among the fields of the prompt.
C5_KeysWithinFieldList ==
    last.called =>
        \/ last.info = EmptyRecord
        \/ last.info.t = "obj" /\ DOMAIN last.info.m \subseteq PromptFields

\* C5 (amended): extract_information never raises; it returns the empty
\* record when the service call fails or the reply is not JSON, and otherwise
\* the parsed reply as it is, with every key of the reply and its last value.
C5_ReturnsReplyOrEmpty ==
    /\ pc # "crashed"
    /\ last.called =>
          LET r == last.reply
          IN  IF r.kind = "reply" /\ ObjectShape(r.content)
              THEN /\ last.errs = <<>>
                   /\ last.info.t = "obj"
                   /\ DOMAIN last.info.m = ReplyKeys(r.content)
                   /\ \A k \in ReplyKeys(r.content) :
                         last.info.m[k] = ReplyValue(r.content, k)
              ELSE IF r.kind = "reply" /\ Len(r.content) = 1
                      /\ r.content[1].t # "punct"
              THEN last.errs = <<>> /\ last.info = r.content[1]
              ELSE last.errs = <<"info_error">> /\ last.info = EmptyRecord

\* the reply is a JSON object with a key the prompt does not list
C5_Witness ==
    /\ last.called
    /\ last.info.t = "obj"
    /\ KOther \in DOMAIN last.info.m
    /\ KName \in DOMAIN last.info.m

\* C6 (as stated): a stored name is never removed or mapped to another
\* record, and extract_information runs at most once for a stored name.
C6_StoreAppendOnly ==
    [][/\ \A n \in DOMAIN Store(session_state) :
             /\ n \in DOMAIN Store(session_state')
             /\ Store(session_state')[n] = Store(session_state)[n]
       /\ \A n \in DOMAIN Store(session_state') : calls'[n] <= 1]_vars

\* C7: a run without API key ends at the warning: no parser, no call of
\* extract_text or extract_information, extracted_data as the earlier runs
\* left it.
C7_NoKeyHalts ==
    api_key = <<>> =>
        /\ pc = "idle"
        /\ parser = "none"
        /\ queue = <<>> /\ done = <<>> /\ last = NoEntry
        /\ Store(session_state) = start_store
        /\ page.kind \in {"none", "warning"}

\* a run without key after a run that stored a record
C7_Witness ==
    /\ api_key = <<>>
    /\ page.kind = "warning"
    /\ DOMAIN Store(session_state) # {}

\* what the rendered page shows
Shown(view, title) ==
    \E i \in 1..Len(view.out) :
        view.out[i].w = "subheader" /\ view.out[i].label = title
Written(view, label) ==
    {view.out[i].val : i \in {j \in 1..Len(view.out) :
                                 view.out[j].w = "write" /\ view.out[j].label = label}}

\* C8 (as stated): each section is rendered exactly if its field is present
\* and not empty, and a missing basic field is rendered as N/A.
C8_SectionsIffPresent ==
    page.kind = "resume" =>
        LET info == Store(session_state)[page.name]
            Has(k) == k \in DOMAIN info.m /\ Truthy(info.m[k])
        IN  /\ Shown(page.view, "Professional Summary") <=> Has(KSummary)
            /\ Shown(page.view, "Work Experience") <=> Has(KExperience)
            /\ Shown(page.view, "Education") <=> Has(KEducation)
            /\ Shown(page.view, "Languages") <=> Has(KLanguages)
            /\ Shown(page.view, "Certificates") <=> Has(KCertificates)
            /\ Shown(page.view, "Work Visas") <=> Has(KVisas)
            /\ KName \notin DOMAIN info.m => Written(page.view, "Name") = {NA}
            /\ KLocation \notin DOMAIN info.m => Written(page.view, "Location") = {NA}
            /\ KNationality \notin DOMAIN info.m =>
                  Written(page.view, "Nationality") = {NA}
            /\ KDob \notin DOMAIN info.m => Written(page.view, "Date of Birth") = {NA}

\* C9 (as stated): rendering a stored record never raises.
C9_RenderingNeverRaises == page.kind = "resume" => ~page.view.raised

\* C10 (as stated): a file extract_text accepts is opened with the format of
\* its extension, compared without regard to case.
C10_TagFollowsExtension ==
    (Processed /\ last.read) =>
        /\ EndsWithAny(StrLower(last.name), {ExtDocx, ExtDoc}) => last.tag = "docx"
        /\ EndsWith(StrLower(last.name), ExtPdf) => last.tag = "pdf"

====
